---- MODULE Spec2Model ----
(***************************************************************************)
(* smk: an incremental C build engine (src/smk/build.py) and its command   *)
(* line (src/smk/__main__.py).                                             *)
(*                                                                         *)
(* The model has three layers:                                             *)
(*   - paths, dependency-file text and command lines as data;              *)
(*   - the pure oracles (parse_dependencies, need_recompile,               *)
(*     calc_link_hash, need_relink) as operators over a file system;       *)
(*   - the build as a state machine: the main process of build() and the   *)
(*     worker processes of the ProcessPoolExecutor.                        *)
(***************************************************************************)
EXTENDS Integers, Sequences, FiniteSets, Bags, TLC

VARIABLES
    fs,          \* the file system: existing path -> [kind, mtime, data]
    now,         \* the clock file modification times are taken from
    sources,     \* BuildConfig.sources
    cflags,      \* BuildConfig.cflags
    libs,        \* BuildConfig.libs
    build_dir,   \* BuildConfig._build_dir
    build_type,  \* BuildConfig.build_type
    gen_db,      \* the gen_db argument the caller passes to build()
    pc,          \* where the main process is
    task,        \* per submitted source: [st, success] of its future
    res,         \* compile(): the list res, as indices of sources
    runs,        \* number of build()/clean() calls made so far
    workers,     \* the pool's max_workers, set by the machine's CPU count
    ret,         \* the value returned by the last oracle call, <<>> if none
    h_compiled,  \* history: sources whose compiler ran in this build()
    h_linked,    \* history: whether the linker ran in this build()
    h_late,      \* history: sources started after the failure was observed
    h_fs0,       \* history: the file system when this build()/clean() was called
    h_prev,      \* history: <<the last build(), if it succeeded>>, and what
                 \*          was touched since
    h_start,     \* history: h_prev when this build() was called
    h_exit,      \* history: how the linker of this build() exited, if it ran
    registry,    \* the module's __TARGET_REGISTRY
    h_calls,     \* history: the register_target calls made and what they did
    h_pull,      \* history: the targets pull_target has yielded
    h_abort      \* history: <<the last build() that compile() aborted>>

vars == <<fs, now, sources, cflags, libs, build_dir, build_type, gen_db, pc,
          task, res, runs, workers, ret, h_compiled, h_linked, h_late, h_fs0,
          h_prev, h_start, h_exit, registry, h_calls, h_pull, h_abort>>

regvars == <<registry, h_calls, h_pull>>

(***************************************************************************)
(* Bounds of the model.                                                    *)
(***************************************************************************)
MaxTime == 2      \* the clock runs over 0..MaxTime
MaxRuns == 2      \* build()/clean() calls in one behaviour
MaxWorkers == 2   \* largest pool size considered
MaxLibs == 1      \* link flags added by link_library
MaxCalls == 3     \* register_target calls in one process
MaxImports == 1   \* include paths added by add_import

(***************************************************************************)
(* Paths.  A path is a sequence of components; a component is the sequence *)
(* of its dot-separated parts, so "a.c" is <<"a","c">> and "build" is      *)
(* <<"build">>.                                                            *)
(***************************************************************************)
Name(stem, ext) == <<stem, ext>>
Dir(name) == <<name>>
InCwd(component) == <<component>>

\* pathlib.PurePath.with_suffix: the last dot-part of the final component is
\* replaced; a final component without a suffix gets one appended.
with_suffix(p, suffix) ==
    LET n    == Len(p)
        last == p[n]
        new  == IF Len(last) >= 2
                THEN SubSeq(last, 1, Len(last) - 1) \o <<suffix>>
                ELSE last \o <<suffix>>
    IN  SubSeq(p, 1, n - 1) \o <<new>>

\* pathlib's "/" for a relative right operand.
Join(dir, p) == dir \o p

IsPrefix(d, p) == Len(d) <= Len(p) /\ SubSeq(p, 1, Len(d)) = d

(***************************************************************************)
(* Tokens.  Command-line arguments and the words of a dependency file are  *)
(* strings in the program; here a token is a record so that flags, paths   *)
(* and the punctuation of a dependency file have one type.                 *)
(***************************************************************************)
Tok(k, s, p) == [k |-> k, s |-> s, p |-> p]
Arg(s)   == Tok("arg", s, <<>>)       \* a flag or program name
Str(p)   == Tok("path", "", p)        \* str(path)
Colon    == Tok("colon", ":", <<>>)   \* ':'
Newline  == Tok("nl", "", <<>>)       \* '\n'
Cont     == Tok("cont", "", <<>>)     \* backslash-newline

\* Path(dep) for a word of the dependency list
PathOf(t) == IF t.k = "path" THEN t.p ELSE InCwd(<<t.s>>)

(***************************************************************************)
(* The file system.                                                        *)
(***************************************************************************)
File(mtime, data) == [kind |-> "file", mtime |-> mtime, data |-> data]
Directory == [kind |-> "dir", mtime |-> 0, data |-> <<>>]

exists(f, p) == p \in DOMAIN f
isdir(f, p)  == p \in DOMAIN f /\ f[p].kind = "dir"

\* f with file p written at time t
WriteFile(f, p, t, data) ==
    [q \in DOMAIN f \cup {p} |-> IF q = p THEN File(t, data) ELSE f[q]]

\* Path.mkdir(parents=True, exist_ok=True)
mkdir(f, d) ==
    LET new == { SubSeq(d, 1, k) : k \in 1..Len(d) } \ DOMAIN f
    IN  [q \in DOMAIN f \cup new |-> IF q \in new THEN Directory ELSE f[q]]

\* shutil.rmtree
rmtree(f, d) == [q \in { q \in DOMAIN f : ~IsPrefix(d, q) } |-> f[q]]

(***************************************************************************)
(* parse_dependencies: drop the line continuations, split into lines, and  *)
(* return the words after the first colon of the first line that has one.  *)
(***************************************************************************)
RECURSIVE SplitLines(_)
SplitLines(s) ==
    IF s = <<>> THEN << <<>> >>
    ELSE LET r == SplitLines(Tail(s))
         IN  IF Head(s).k = "nl"
             THEN << <<>> >> \o r
             ELSE << <<Head(s)>> \o Head(r) >> \o Tail(r)

HasColon(line) == \E i \in 1..Len(line) : line[i].k = "colon"

AfterFirstColon(line) ==
    LET i == CHOOSE i \in 1..Len(line) :
                 /\ line[i].k = "colon"
                 /\ \A j \in 1..(i - 1) : line[j].k # "colon"
    IN  SubSeq(line, i + 1, Len(line))

RECURSIVE FirstRule(_)
FirstRule(lines) ==
    IF lines = <<>> THEN <<>>
    ELSE IF HasColon(Head(lines)) THEN AfterFirstColon(Head(lines))
    ELSE FirstRule(Tail(lines))

parse_dependencies(content) ==
    LET joined == SelectSeq(content, LAMBDA t : t.k # "cont")
        deps   == FirstRule(SplitLines(joined))
    IN  [i \in 1..Len(deps) |-> PathOf(deps[i])]

(***************************************************************************)
(* __need_recompile                                                        *)
(***************************************************************************)
\* need_recompile with >= for > in the comparison of modification times
RECURSIVE DepLoopGe(_, _, _)
DepLoopGe(f, dependencies, obj_mtime) ==
    IF dependencies = <<>> THEN FALSE
    ELSE LET pd == Head(dependencies)
         IN  IF ~exists(f, pd) THEN TRUE
             ELSE IF f[pd].mtime >= obj_mtime THEN TRUE
             ELSE DepLoopGe(f, Tail(dependencies), obj_mtime)

need_recompile_ge(f, obj_path, dep_path) ==
    IF exists(f, obj_path) /\ exists(f, dep_path)
    THEN DepLoopGe(f, parse_dependencies(f[dep_path].data), f[obj_path].mtime)
    ELSE TRUE

RECURSIVE DepLoop(_, _, _)
DepLoop(f, dependencies, obj_mtime) ==
    IF dependencies = <<>> THEN FALSE
    ELSE LET pd == Head(dependencies)
         IN  IF ~exists(f, pd) THEN TRUE
             ELSE IF f[pd].mtime > obj_mtime THEN TRUE
             ELSE DepLoop(f, Tail(dependencies), obj_mtime)

need_recompile(f, obj_path, dep_path) ==
    IF exists(f, obj_path) /\ exists(f, dep_path)
    THEN DepLoop(f, parse_dependencies(f[dep_path].data), f[obj_path].mtime)
    ELSE TRUE

(***************************************************************************)
(* The project being built, and the configuration build.py gives it.       *)
(***************************************************************************)
app_name == "app"
compiler == Arg("cc")
root_dir == "/proj"
BuildRoot == <<Dir("build")>>            \* _build_dir: Path = Path("build")
BuildTypes == {"debug", "release"}       \* class BuildType(StrEnum)
BaseCflags == <<Arg("-std=c11")>>

a_c   == InCwd(Name("a", "c"))
a_cpp == InCwd(Name("a", "cpp"))
b_c   == InCwd(Name("b", "c"))
h_h   == InCwd(Name("h", "h"))

\* the source lists a behaviour may be configured with
SourceLists == { <<a_c, b_c>>, <<a_c, a_cpp>> }
\* the library build.py may link: Library(name, cflags, libs)
LibM == [name |-> "m", cflags |-> <<>>, libs |-> <<Arg("-lm")>>]
Libraries == {LibM}
\* the headers each source includes (a.c includes h.h)
Includes(source) == IF source = a_c THEN <<h_h>> ELSE <<>>
InputFiles == {a_c, a_cpp, b_c, h_h}

\* build(): the flags appended for the build type
TypeFlags(bt) ==
    IF bt = "debug"
    THEN <<Arg("-O0"), Arg("-g"), Arg("-D"), Arg("DEBUG"), Arg("-Wall"), Arg("-Wextra")>>
    ELSE <<Arg("-O3"), Arg("-D"), Arg("NDEBUG")>>

(***************************************************************************)
(* compile_file: the paths, the command and the database entry.            *)
(***************************************************************************)
obj_path(bdir, source) == Join(bdir, with_suffix(source, "o"))
dep_path(bdir, source) == Join(bdir, with_suffix(source, "d"))

compile_cmd(bdir, flags, source) ==
    <<compiler>> \o flags
        \o <<Arg("-MMD"), Arg("-MF"), Str(dep_path(bdir, source)),
             Arg("-c"), Str(source), Arg("-o"), Str(obj_path(bdir, source))>>

cdb_entry(bdir, flags, source) ==
    [directory |-> root_dir,
     arguments |-> compile_cmd(bdir, flags, source),
     file      |-> source]

\* what the compiler's -MMD -MF writes: one rule, target: source headers
DepText(bdir, source) ==
    LET hs == Includes(source)
    IN  <<Str(obj_path(bdir, source)), Colon, Str(source)>>
        \o (IF hs = <<>> THEN <<>> ELSE <<Cont>> \o [i \in 1..Len(hs) |-> Str(hs[i])])
        \o <<Newline>>

(***************************************************************************)
(* The link step's pure parts.                                             *)
(***************************************************************************)
app_path(bdir) == Join(bdir, InCwd(<<app_name>>))
link_hash_path(bdir) == Join(bdir, InCwd(<<"", app_name, "linkhash">>))

link_cmd(bdir, obj_paths, ls) ==
    <<compiler>> \o [i \in 1..Len(obj_paths) |-> Str(obj_paths[i])] \o ls
        \o <<Arg("-o"), Str(app_path(bdir))>>

\* sorted(cmd): the order of the tokens is forgotten, their multiplicity is not
RECURSIVE sorted(_)
sorted(cmd) ==
    IF cmd = <<>> THEN EmptyBag
    ELSE SetToBag({Head(cmd)}) (+) sorted(Tail(cmd))

\* calc_link_hash hashing the command as given, without sorted()
calc_link_hash_unsorted(cmd) == cmd

\* sha256 of the joined sorted tokens, taken as injective
calc_link_hash(cmd) == sorted(cmd)

getmtime(f, p) == f[p].mtime

\* need_relink without the comparison of the link hash
need_relink_no_hash(f, bdir, obj_paths, cmd) ==
    IF ~exists(f, app_path(bdir)) THEN TRUE
    ELSE \E i \in 1..Len(obj_paths) :
             getmtime(f, obj_paths[i]) > getmtime(f, app_path(bdir))

need_relink(f, bdir, obj_paths, cmd) ==
    IF ~exists(f, app_path(bdir)) THEN TRUE
    ELSE IF ~exists(f, link_hash_path(bdir)) THEN TRUE
    ELSE IF f[link_hash_path(bdir)].data # calc_link_hash(cmd) THEN TRUE
    ELSE \E i \in 1..Len(obj_paths) :
             getmtime(f, obj_paths[i]) > getmtime(f, app_path(bdir))

(***************************************************************************)
(* The state machine.                                                      *)
(*                                                                         *)
(* pc: "ready"   a BuildConfig was constructed, nothing has run on it      *)
(*     "gather"  compile(): inside the as_completed loop                   *)
(*     "abort"   compile(): CompilationError raised inside the with block; *)
(*               the executor's __exit__ is shutdown(wait=True)            *)
(*     "link"    build(): compile() returned, link() not yet called        *)
(*     "emit"    build(): link() returned, gen_db is set                   *)
(*     "done"    build() returned                                          *)
(*     "failed"  build() raised                                            *)
(*     "cleaned" clean() returned                                          *)
(***************************************************************************)
Idle == {"ready", "done", "failed", "cleaned"}
NoTasks == <<>>
NoBuild == <<>>

\* a write happens at the clock's present value, which may have advanced
Times == { t \in {now, now + 1} : t <= MaxTime }

InitFs ==
    [p \in InputFiles |-> File(0, <<>>)]

\* a BuildConfig as build.py constructs it, in a process that has done nothing
Constructed ==
    /\ cflags = BaseCflags
    /\ build_dir = BuildRoot
    /\ build_type = "debug"
    /\ pc = "ready"
    /\ task = NoTasks
    /\ res = <<>>
    /\ runs = 0
    /\ ret = <<>>
    /\ h_compiled = {}
    /\ h_linked = FALSE
    /\ h_late = {}
    /\ h_fs0 = fs
    /\ h_prev = NoBuild
    /\ h_start = NoBuild
    /\ h_exit = "none"
    /\ registry = <<>>
    /\ h_calls = <<>>
    /\ h_pull = <<>>
    /\ h_abort = <<>>

\* the project before anything was built
Init ==
    /\ fs = InitFs
    /\ now = 0
    /\ sources \in SourceLists
    /\ libs = <<>>
    /\ gen_db \in BOOLEAN
    /\ workers \in 1..MaxWorkers
    /\ Constructed

\* __main__.import_user_target in a new process: build.py constructs the
\* BuildConfig again, registers it in the new process's empty registry, and
\* next(pull_target()) takes it out again.
Load ==
    /\ pc \in {"done", "failed", "cleaned"}
    /\ runs < MaxRuns
    /\ cflags' = BaseCflags
    /\ libs' = <<>>
    /\ build_dir' = BuildRoot
    /\ build_type' = "debug"
    /\ pc' = "ready"
    /\ UNCHANGED <<fs, now, sources, gen_db, task, res, runs, workers, ret,
                   h_compiled, h_linked, h_late, h_fs0, h_prev, h_start, h_exit, regvars, h_abort>>

\* the include path build.py may add
ImportPaths == {"include"}

\* the number of -I flags in a flag list
RECURSIVE Imports(_)
Imports(flags) ==
    IF flags = <<>> THEN 0
    ELSE (IF Head(flags) = Arg("-I") THEN 1 ELSE 0) + Imports(Tail(flags))

\* add_import, lines 109-111
add_import(import_path) ==
    /\ pc \in Idle
    /\ runs < MaxRuns
    /\ Imports(cflags) < MaxImports
    /\ cflags' = <<Arg("-I"), Arg(import_path)>> \o cflags
    /\ UNCHANGED <<fs, now, sources, libs, build_dir, build_type, gen_db, pc, task,
                   res, runs, workers, ret, h_compiled, h_linked, h_late, h_fs0,
                   h_prev, h_start, h_exit, regvars, h_abort>>

\* link_library, lines 113-115
link_library(library) ==
    /\ pc \in Idle
    /\ runs < MaxRuns
    /\ Len(libs) < MaxLibs
    /\ cflags' = cflags \o library.cflags
    /\ libs' = libs \o library.libs
    /\ UNCHANGED <<fs, now, sources, build_dir, build_type, gen_db, pc, task, res,
                   runs, workers, ret, h_compiled, h_linked, h_late, h_fs0, h_prev,
                   h_start, h_exit, regvars, h_abort>>

\* build(), lines 257-265, and compile() up to the submission of every source
build(bt) ==
    /\ pc \in Idle
    /\ runs < MaxRuns
    /\ runs' = runs + 1
    /\ build_type' = bt
    /\ build_dir' = Join(build_dir, <<Dir(bt)>>)
    /\ cflags' = cflags \o TypeFlags(bt)
    /\ task' = [i \in 1..Len(sources) |-> [st |-> "queued", success |-> FALSE]]
    /\ res' = <<>>
    /\ pc' = "gather"
    /\ h_compiled' = {}
    /\ h_linked' = FALSE
    /\ h_late' = {}
    /\ h_fs0' = fs
    /\ h_start' = h_prev
    /\ h_prev' = NoBuild
    /\ h_exit' = "none"
    /\ UNCHANGED <<fs, now, sources, libs, gen_db, workers, ret, regvars, h_abort>>

Running == { i \in DOMAIN task : task[i].st = "running" }

\* A pool process takes the next queued call and runs compile_file up to the
\* compiler's start (lines 144-170); an up-to-date source returns at once.
WorkerStart(i) ==
    /\ pc \in {"gather", "abort"}
    /\ i \in DOMAIN task
    /\ task[i].st = "queued"
    /\ \A j \in 1..(i - 1) : task[j].st # "queued"
    /\ Cardinality(Running) < workers
    /\ LET obj == obj_path(build_dir, sources[i])
           dep == dep_path(build_dir, sources[i])
           f1  == mkdir(fs, SubSeq(obj, 1, Len(obj) - 1))
       IN  /\ fs' = f1
           /\ IF need_recompile(f1, obj, dep)
              THEN /\ task' = [task EXCEPT ![i].st = "running"]
                   /\ h_compiled' = h_compiled \cup {i}
              ELSE /\ task' = [task EXCEPT ![i] = [st |-> "done", success |-> TRUE]]
                   /\ UNCHANGED h_compiled
    /\ h_late' = IF pc = "abort" THEN h_late \cup {i} ELSE h_late
    /\ UNCHANGED <<now, sources, cflags, libs, build_dir, build_type, gen_db, pc,
                   res, runs, workers, ret, h_linked, h_fs0, h_prev, h_start, h_exit, regvars, h_abort>>

\* The compiler process of source i ends (lines 171-178).  On success it has
\* written the object and the dependency file; on failure it has written
\* neither.
WorkerFinish(i, ok, t) ==
    /\ i \in DOMAIN task
    /\ task[i].st = "running"
    /\ t \in Times
    /\ now' = t
    /\ task' = [task EXCEPT ![i] = [st |-> "done", success |-> ok]]
    /\ fs' = IF ok
             THEN WriteFile(
                      WriteFile(fs, dep_path(build_dir, sources[i]), t,
                                DepText(build_dir, sources[i])),
                      obj_path(build_dir, sources[i]), t, <<>>)
             ELSE fs
    /\ UNCHANGED <<sources, cflags, libs, build_dir, build_type, gen_db, pc, res,
                   runs, workers, ret, h_compiled, h_linked, h_late, h_fs0, h_prev,
                   h_start, h_exit, regvars, h_abort>>

Yielded == { res[k] : k \in 1..Len(res) }

\* Gather without the check of f_res.success
GatherUnchecked(i) ==
    /\ pc = "gather"
    /\ i \in DOMAIN task
    /\ task[i].st = "done"
    /\ i \notin Yielded
    /\ res' = Append(res, i)
    /\ pc' = IF Len(res) + 1 = Len(sources) THEN "link" ELSE "gather"
    /\ UNCHANGED <<fs, now, sources, cflags, libs, build_dir, build_type, gen_db,
                   task, runs, workers, ret, h_compiled, h_linked, h_late, h_fs0,
                   h_prev, h_start, h_exit, regvars, h_abort>>

\* compile(), lines 191-196: as_completed yields a finished future
Gather(i) ==
    /\ pc = "gather"
    /\ i \in DOMAIN task
    /\ task[i].st = "done"
    /\ i \notin Yielded
    /\ res' = Append(res, i)
    /\ pc' = IF ~task[i].success THEN "abort"
             ELSE IF Len(res) + 1 = Len(sources) THEN "link"
             ELSE "gather"
    /\ UNCHANGED <<fs, now, sources, cflags, libs, build_dir, build_type, gen_db,
                   task, runs, workers, ret, h_compiled, h_linked, h_late, h_fs0,
                   h_prev, h_start, h_exit, regvars, h_abort>>

\* Abort with shutdown(wait=False): the exception leaves at once
AbortNoWait ==
    /\ pc = "abort"
    /\ pc' = "failed"
    /\ h_abort' = <<[run |-> runs, bt |-> build_type, dir |-> build_dir,
                     failed |-> { i \in DOMAIN task :
                                    task[i].st = "done" /\ ~task[i].success },
                     succeeded |-> { i \in DOMAIN task :
                                       task[i].st = "done" /\ task[i].success }]>>
    /\ UNCHANGED <<fs, now, sources, cflags, libs, build_dir, build_type, gen_db,
                   task, res, runs, workers, ret, h_compiled, h_linked, h_late,
                   h_fs0, h_prev, h_start, h_exit, regvars>>

\* compile(), line 187: leaving the with block on the exception waits for
\* every submitted call, then CompilationError leaves build()
Abort ==
    /\ pc = "abort"
    /\ \A i \in DOMAIN task : task[i].st = "done"
    /\ pc' = "failed"
    /\ h_abort' = <<[run |-> runs, bt |-> build_type, dir |-> build_dir,
                     failed |-> { i \in DOMAIN task :
                                    task[i].st = "done" /\ ~task[i].success },
                     succeeded |-> { i \in DOMAIN task :
                                       task[i].st = "done" /\ task[i].success }]>>
    /\ UNCHANGED <<fs, now, sources, cflags, libs, build_dir, build_type, gen_db,
                   task, res, runs, workers, ret, h_compiled, h_linked, h_late,
                   h_fs0, h_prev, h_start, h_exit, regvars>>

\* build(), line 268: [str(r.obj_path) for r in res]
ObjPaths == [k \in 1..Len(res) |-> obj_path(build_dir, sources[res[k]])]

\* build() returns: the history of the completed build
Finished(f) ==
    /\ h_prev' = <<[bt |-> build_type, dir |-> build_dir, libs |-> libs,
                    cflags |-> cflags, touched |-> {}]>>
    /\ fs' = f

\* link writing the marker before the linker has run
link_marker_first(ok, t) ==
    /\ pc = "link"
    /\ t \in Times
    /\ LET cmd == link_cmd(build_dir, ObjPaths, libs)
           f0  == WriteFile(fs, link_hash_path(build_dir), t, calc_link_hash(cmd))
       IN  IF need_relink(fs, build_dir, ObjPaths, cmd)
           THEN /\ h_linked' = TRUE
                /\ h_exit' = IF ok THEN "zero" ELSE "nonzero"
                /\ now' = t
                /\ IF ok
                   THEN LET f2 == WriteFile(f0, app_path(build_dir), t, <<>>)
                        IN  IF gen_db
                            THEN pc' = "emit" /\ fs' = f2 /\ UNCHANGED h_prev
                            ELSE pc' = "done" /\ Finished(f2)
                   ELSE pc' = "failed" /\ fs' = f0 /\ UNCHANGED h_prev
           ELSE /\ ok /\ t = now
                /\ UNCHANGED <<h_linked, h_exit, now>>
                /\ IF gen_db
                   THEN pc' = "emit" /\ UNCHANGED <<fs, h_prev>>
                   ELSE pc' = "done" /\ Finished(fs)
    /\ UNCHANGED <<sources, cflags, libs, build_dir, build_type, gen_db, task, res,
                   runs, workers, ret, h_compiled, h_late, h_fs0, h_start, regvars, h_abort>>

\* link(), lines 227-243, and the return of build() when gen_db is not set
link(ok, t) ==
    /\ pc = "link"
    /\ t \in Times
    /\ LET cmd == link_cmd(build_dir, ObjPaths, libs)
       IN  IF need_relink(fs, build_dir, ObjPaths, cmd)
           THEN /\ h_linked' = TRUE
                /\ h_exit' = IF ok THEN "zero" ELSE "nonzero"
                /\ now' = t
                /\ IF ok
                   THEN LET f1 == WriteFile(fs, app_path(build_dir), t, <<>>)
                            f2 == WriteFile(f1, link_hash_path(build_dir), t,
                                            calc_link_hash(cmd))
                        IN  IF gen_db
                            THEN pc' = "emit" /\ fs' = f2 /\ UNCHANGED h_prev
                            ELSE pc' = "done" /\ Finished(f2)
                   ELSE pc' = "failed" /\ UNCHANGED <<fs, h_prev>>
           ELSE /\ ok /\ t = now
                /\ UNCHANGED <<h_linked, h_exit, now>>
                /\ IF gen_db
                   THEN pc' = "emit" /\ UNCHANGED <<fs, h_prev>>
                   ELSE pc' = "done" /\ Finished(fs)
    /\ UNCHANGED <<sources, cflags, libs, build_dir, build_type, gen_db, task, res,
                   runs, workers, ret, h_compiled, h_late, h_fs0, h_start, regvars, h_abort>>

compile_commands == InCwd(Name("compile_commands", "json"))

\* EmitDb listing only the sources whose compiler ran
EmitDbCompiled ==
    /\ pc = "emit"
    /\ LET ran == SelectSeq(res, LAMBDA i : i \in h_compiled)
       IN  Finished(WriteFile(fs, compile_commands, now,
               [k \in 1..Len(ran) |-> cdb_entry(build_dir, cflags, sources[ran[k]])]))
    /\ pc' = "done"
    /\ UNCHANGED <<now, sources, cflags, libs, build_dir, build_type, gen_db, task,
                   res, runs, workers, ret, h_compiled, h_linked, h_late, h_fs0,
                   h_start, h_exit, regvars, h_abort>>

\* build(), lines 270-273
EmitDb ==
    /\ pc = "emit"
    /\ Finished(WriteFile(fs, compile_commands, now,
           [k \in 1..Len(res) |-> cdb_entry(build_dir, cflags, sources[res[k]])]))
    /\ pc' = "done"
    /\ UNCHANGED <<now, sources, cflags, libs, build_dir, build_type, gen_db, task,
                   res, runs, workers, ret, h_compiled, h_linked, h_late, h_fs0,
                   h_start, h_exit, regvars, h_abort>>

\* clean calling shutil.rmtree without the isdir test: rmtree raises on a
\* directory that does not exist
clean_unguarded ==
    /\ pc \in Idle
    /\ runs < MaxRuns
    /\ runs' = runs + 1
    /\ fs' = rmtree(fs, build_dir)
    /\ pc' = IF isdir(fs, build_dir) THEN "cleaned" ELSE "clean raised"
    /\ h_prev' = NoBuild
    /\ h_fs0' = fs
    /\ UNCHANGED <<now, sources, cflags, libs, build_dir, build_type, gen_db, task,
                   res, workers, ret, h_compiled, h_linked, h_late, h_start, h_exit, regvars, h_abort>>

\* clean(), lines 278-283
clean ==
    /\ pc \in Idle
    /\ runs < MaxRuns
    /\ runs' = runs + 1
    /\ fs' = IF isdir(fs, build_dir) THEN rmtree(fs, build_dir) ELSE fs
    /\ pc' = "cleaned"
    /\ h_prev' = NoBuild
    /\ h_fs0' = fs
    /\ UNCHANGED <<now, sources, cflags, libs, build_dir, build_type, gen_db, task,
                   res, workers, ret, h_compiled, h_linked, h_late, h_start, h_exit, regvars, h_abort>>

\* The user saves a header after a build, at most once.
Touchable == {h_h}

Touch(p, t) ==
    /\ pc \in Idle
    /\ runs < MaxRuns
    /\ p \in Touchable
    /\ h_prev # NoBuild /\ p \notin h_prev[1].touched
    /\ t \in Times
    /\ now' = t
    /\ fs' = WriteFile(fs, p, t, <<>>)
    /\ h_prev' = [k \in DOMAIN h_prev |->
                     [h_prev[k] EXCEPT !.touched = @ \cup {p}]]
    /\ UNCHANGED <<sources, cflags, libs, build_dir, build_type, gen_db, pc, task,
                   res, runs, workers, ret, h_compiled, h_linked, h_late, h_fs0,
                   h_start, h_exit, regvars, h_abort>>

\* the steps of a running build()
BuildSteps ==
    \/ \E i \in DOMAIN sources : WorkerStart(i)
    \/ \E i \in DOMAIN sources, ok \in BOOLEAN, t \in 0..MaxTime : WorkerFinish(i, ok, t)
    \/ \E i \in DOMAIN sources : Gather(i)
    \/ Abort
    \/ \E ok \in BOOLEAN, t \in 0..MaxTime : link(ok, t)
    \/ EmitDb

Next ==
    \/ Load
    \/ \E l \in Libraries : link_library(l)
    \/ \E import_path \in ImportPaths : add_import(import_path)
    \/ \E bt \in BuildTypes : build(bt)
    \/ BuildSteps
    \/ clean
    \/ \E p \in Touchable, t \in 0..MaxTime : Touch(p, t)

Spec == Init /\ [][Next]_vars

(***************************************************************************)
(* One build() on a newly constructed configuration, started from a build  *)
(* tree as earlier runs and the user may have left it: absent, complete,   *)
(* or holding the artifacts of the first source only; with the header      *)
(* older or newer than the artifacts.                                      *)
(***************************************************************************)
DebugDir == Join(BuildRoot, <<Dir("debug")>>)

RECURSIVE Compiled(_, _, _, _)
Compiled(f, srcs, n, t) ==
    IF n = 0 THEN f
    ELSE LET g == Compiled(f, srcs, n - 1, t)
         IN  WriteFile(
                 WriteFile(g, dep_path(DebugDir, srcs[n]), t, DepText(DebugDir, srcs[n])),
                 obj_path(DebugDir, srcs[n]), t, <<>>)

\* a compile_commands.json written when b.c was the only source
StaleDb == <<cdb_entry(DebugDir, BaseCflags \o TypeFlags("debug"), b_c)>>

TreeNone == InitFs
TreePartial(srcs) == Compiled(mkdir(InitFs, DebugDir), srcs, 1, 0)
TreeBuilt(srcs) ==
    LET f1   == Compiled(mkdir(InitFs, DebugDir), srcs, Len(srcs), 0)
        objs == [i \in 1..Len(srcs) |-> obj_path(DebugDir, srcs[i])]
        f2   == WriteFile(f1, app_path(DebugDir), 0, <<>>)
        f3   == WriteFile(f2, link_hash_path(DebugDir), 0,
                          calc_link_hash(link_cmd(DebugDir, objs, <<>>)))
    IN  WriteFile(f3, compile_commands, 0, StaleDb)

Trees(srcs) == {TreeNone, TreePartial(srcs), TreeBuilt(srcs)}

InitBuild ==
    /\ sources \in SourceLists
    /\ now \in 0..1
    /\ \E tree \in Trees(sources) : fs = WriteFile(tree, h_h, now, <<>>)
    /\ libs \in {<<>>, LibM.libs}
    /\ gen_db \in BOOLEAN
    /\ workers \in 1..MaxWorkers
    /\ Constructed

NextBuild ==
    \/ \E bt \in BuildTypes : pc = "ready" /\ build(bt)
    \/ BuildSteps

SpecBuild == InitBuild /\ [][NextBuild]_vars

(***************************************************************************)
(* The command line's clean: one build() on a newly constructed            *)
(* configuration leaves a tree, and clean() runs on that configuration or, *)
(* as `smk clean` does, on a newly loaded one.                             *)
(***************************************************************************)
NextClean ==
    \/ \E bt \in BuildTypes : pc = "ready" /\ runs = 0 /\ build(bt)
    \/ BuildSteps
    \/ clean
    \/ Load

SpecClean == InitBuild /\ [][NextClean]_vars

(***************************************************************************)
(* The oracles as pure functions: one call on a file system drawn from a   *)
(* bounded set.                                                            *)
(***************************************************************************)
OracleObj == obj_path(DebugDir, a_c)
OracleDep == dep_path(DebugDir, a_c)

\* dependency files: the compiler's, an empty one, one without a colon, a
\* colon-free line before the rule, and two rules
DepContents ==
    { DepText(DebugDir, a_c),
      <<>>,
      <<Str(OracleObj), Str(h_h), Newline>>,
      <<Str(a_c), Newline, Str(OracleObj), Colon, Str(h_h), Newline>>,
      <<Str(OracleObj), Colon, Str(a_c), Newline, Str(OracleObj), Colon, Str(h_h), Newline>> }

\* a file system holding, at any time or not at all, each of the given paths
FsOver(paths, datas) ==
    UNION { [present -> [kind : {"file"}, mtime : 0..MaxTime, data : datas]]
            : present \in SUBSET paths }

Merge(f, g) == [q \in DOMAIN f \cup DOMAIN g |-> IF q \in DOMAIN g THEN g[q] ELSE f[q]]

InitRecompile ==
    /\ sources = <<a_c, b_c>>
    /\ now = MaxTime
    /\ \E f \in FsOver({a_c, h_h, OracleObj}, {<<>>}),
          d \in FsOver({OracleDep}, DepContents) :
          /\ \A p \in DOMAIN d : d[p].mtime = 0
          /\ fs = Merge(f, d)
    /\ libs = <<>>
    /\ gen_db = FALSE
    /\ workers = 1
    /\ Constructed

call_need_recompile ==
    /\ ret = <<>>
    /\ ret' = <<need_recompile(fs, OracleObj, OracleDep)>>
    /\ UNCHANGED <<fs, now, sources, cflags, libs, build_dir, build_type, gen_db, pc,
                   task, res, runs, workers, h_compiled, h_linked, h_late, h_fs0,
                   h_prev, h_start, h_exit, regvars, h_abort>>

SpecRecompile == InitRecompile /\ [][call_need_recompile]_vars

RelinkObjs == <<obj_path(DebugDir, a_c), obj_path(DebugDir, b_c)>>

\* the marker holds the hash of the command without or with the library
MarkerContents ==
    { calc_link_hash(link_cmd(DebugDir, RelinkObjs, <<>>)),
      calc_link_hash(link_cmd(DebugDir, RelinkObjs, LibM.libs)) }

\* link() is called with the objects of a compile() that succeeded: every
\* object exists
InitRelink ==
    /\ sources = <<a_c, b_c>>
    /\ now = MaxTime
    /\ \E o \in [{RelinkObjs[1], RelinkObjs[2]} -> [kind : {"file"}, mtime : 0..MaxTime, data : {<<>>}]],
          e \in FsOver({app_path(DebugDir)}, {<<>>}),
          m \in FsOver({link_hash_path(DebugDir)}, MarkerContents) :
          /\ \A p \in DOMAIN m : m[p].mtime = 0
          /\ fs = Merge(Merge(o, e), m)
    /\ libs \in {<<>>, LibM.libs}
    /\ gen_db = FALSE
    /\ workers = 1
    /\ cflags = BaseCflags \o TypeFlags("debug")
    /\ build_dir = DebugDir
    /\ build_type = "debug"
    /\ pc = "link"
    /\ task = [i \in 1..2 |-> [st |-> "done", success |-> TRUE]]
    /\ res \in {<<1, 2>>, <<2, 1>>}
    /\ runs = 1
    /\ ret = <<>>
    /\ h_compiled = {}
    /\ h_linked = FALSE
    /\ h_late = {}
    /\ h_fs0 = fs
    /\ h_prev = NoBuild
    /\ h_start = NoBuild
    /\ h_exit = "none"
    /\ registry = <<>>
    /\ h_calls = <<>>
    /\ h_pull = <<>>
    /\ h_abort = <<>>

call_need_relink ==
    /\ ret = <<>>
    /\ ret' = <<need_relink(fs, build_dir, ObjPaths, link_cmd(build_dir, ObjPaths, libs))>>
    /\ UNCHANGED <<fs, now, sources, cflags, libs, build_dir, build_type, gen_db, pc,
                   task, res, runs, workers, h_compiled, h_linked, h_late, h_fs0,
                   h_prev, h_start, h_exit, regvars, h_abort>>

NextRelink ==
    \/ call_need_relink
    \/ \E ok \in BOOLEAN, t \in 0..MaxTime : link(ok, t)

SpecRelink == InitRelink /\ [][NextRelink]_vars

(***************************************************************************)
(* The target registry of one process: register_target and pull_target     *)
(* called in any order on targets of which two have the same app_name.     *)
(***************************************************************************)
Target(id, name) == [id |-> id, app_name |-> name]
Targets == { Target(1, "app"), Target(2, "app"), Target(3, "tool") }

\* BuildConfig.__eq__, and `target in __TARGET_REGISTRY`
eq(t, u) == t.app_name = u.app_name
contains(reg, t) == \E k \in DOMAIN reg : eq(reg[k], t)

Call(t, before, after, outcome) ==
    [target |-> t, before |-> before, after |-> after, outcome |-> outcome]

RegistryFrame ==
    UNCHANGED <<fs, now, sources, cflags, libs, build_dir, build_type, gen_db,
                task, res, runs, workers, ret, h_compiled, h_linked, h_late,
                h_fs0, h_prev, h_start, h_exit, h_abort>>

\* register_target without the test of len(__TARGET_REGISTRY)
register_target_unguarded(target) ==
    /\ pc = "ready"
    /\ Len(h_calls) < MaxCalls
    /\ IF ~contains(registry, target)
       THEN /\ registry' = Append(registry, target)
            /\ h_calls' = Append(h_calls,
                                 Call(target, registry, Append(registry, target), "added"))
            /\ pc' = pc
       ELSE /\ registry' = registry
            /\ h_calls' = Append(h_calls, Call(target, registry, registry, "exit"))
            /\ pc' = "exited"
    /\ UNCHANGED h_pull
    /\ RegistryFrame

\* register_target, lines 57-66
register_target(target) ==
    /\ pc = "ready"
    /\ Len(h_calls) < MaxCalls
    /\ IF Len(registry) > 0
       THEN /\ registry' = registry
            /\ h_calls' = Append(h_calls, Call(target, registry, registry, "ignored"))
            /\ pc' = pc
       ELSE IF ~contains(registry, target)
       THEN /\ registry' = Append(registry, target)
            /\ h_calls' = Append(h_calls,
                                 Call(target, registry, Append(registry, target), "added"))
            /\ pc' = pc
       ELSE /\ registry' = registry
            /\ h_calls' = Append(h_calls, Call(target, registry, registry, "exit"))
            /\ pc' = "exited"
    /\ UNCHANGED h_pull
    /\ RegistryFrame

\* one next() on pull_target(), lines 69-71: list.pop() takes the last element
pull_target ==
    /\ pc = "ready"
    /\ Len(registry) > 0
    /\ h_pull' = Append(h_pull, registry[Len(registry)])
    /\ registry' = SubSeq(registry, 1, Len(registry) - 1)
    /\ UNCHANGED <<pc, h_calls>>
    /\ RegistryFrame

InitRegistry ==
    /\ fs = InitFs
    /\ now = 0
    /\ sources = <<a_c, b_c>>
    /\ libs = <<>>
    /\ gen_db = FALSE
    /\ workers = 1
    /\ Constructed

NextRegistry ==
    \/ \E target \in Targets : register_target(target)
    \/ pull_target

SpecRegistry == InitRegistry /\ [][NextRegistry]_vars

(***************************************************************************)
(* Vocabulary of the properties.                                           *)
(***************************************************************************)
InBuild == {"gather", "abort", "link", "emit"}
AfterBuild == {"done", "failed"}

\* the outcome of every submitted source is known
AllJoined == \A i \in DOMAIN task : task[i].st = "done"
AllSucceeded == \A i \in DOMAIN task : task[i].st = "done" /\ task[i].success
SomeFailed == \E i \in DOMAIN task : task[i].st = "done" /\ ~task[i].success

\* this build() was called after a successful build() of the same build type
\* and with the same link flags
FollowsBuild ==
    /\ pc \in InBuild \cup AfterBuild
    /\ h_start # NoBuild
    /\ h_start[1].bt = build_type

\* ... with no input file saved and no flag changed in between
Undisturbed ==
    /\ FollowsBuild
    /\ h_start[1].libs = libs
    /\ h_start[1].touched = {}

\* ... and it uses the build directory that build() used
SameDirectory == h_start # NoBuild /\ h_start[1].dir = build_dir

\* the object files below a directory
IsObject(p) == p[Len(p)][Len(p[Len(p)])] = "o" /\ Len(p[Len(p)]) >= 2
ObjectsIn(f, d) ==
    { p \in DOMAIN f : IsPrefix(d, p) /\ f[p].kind = "file" /\ IsObject(p) }

\* the dependency record the previous build() left for source i
PrevRecord(i) == dep_path(h_start[1].dir, sources[i])
Lists(i, h) ==
    /\ exists(h_fs0, PrevRecord(i))
    /\ \E k \in DOMAIN parse_dependencies(h_fs0[PrevRecord(i)].data) :
           parse_dependencies(h_fs0[PrevRecord(i)].data)[k] = h

(***************************************************************************)
(* C1  Idempotence: a build() that follows a successful build() of the     *)
(* same build type, with no file and no flag changed in between, invokes   *)
(* neither the compiler nor the linker.                                    *)
(***************************************************************************)
C1_Idempotence ==
    Undisturbed => (h_compiled = {} /\ ~h_linked)

\* the same, for a build() that uses the build directory of the build() it
\* follows (every build() on a newly loaded configuration)
C1_IdempotenceSameDirectory ==
    (Undisturbed /\ SameDirectory) => (h_compiled = {} /\ ~h_linked)

C1_SameDirectoryReached ==
    Undisturbed /\ SameDirectory /\ pc = "done"

(***************************************************************************)
(* C2  Header-change propagation: when a header h was saved after a        *)
(* successful build(), with a modification time above that of every object *)
(* of that build, the next build() of that type, once it has returned, has *)
(* recompiled every source whose dependency record lists h, has relinked,  *)
(* and has recompiled no source whose record does not list h.              *)
(***************************************************************************)
HeaderMovedForward ==
    /\ FollowsBuild
    /\ h_start[1].libs = libs
    /\ h_start[1].touched = {h_h}
    /\ \A p \in ObjectsIn(h_fs0, h_start[1].dir) : h_fs0[h_h].mtime > h_fs0[p].mtime

C2_Recompiled == \A i \in DOMAIN sources : Lists(i, h_h) => i \in h_compiled
C2_Relinked == (\E i \in DOMAIN sources : Lists(i, h_h)) => h_linked
C2_OthersSkipped == \A i \in DOMAIN sources : ~Lists(i, h_h) => i \notin h_compiled

C2_HeaderChangePropagation ==
    (HeaderMovedForward /\ pc = "done") =>
        (C2_Recompiled /\ C2_Relinked /\ C2_OthersSkipped)

(***************************************************************************)
(* C3  Flag-change relink: when only the link flags differ from those of   *)
(* the successful build() before, the next build() of that type, once it   *)
(* has returned, has compiled nothing, has invoked the linker and has left *)
(* the hash of its link command in the marker.                             *)
(***************************************************************************)
OnlyLinkFlagChanged ==
    /\ FollowsBuild
    /\ h_start[1].libs # libs
    /\ h_start[1].touched = {}

MarkerIsCurrent ==
    /\ exists(fs, link_hash_path(build_dir))
    /\ fs[link_hash_path(build_dir)].data =
           calc_link_hash(link_cmd(build_dir, ObjPaths, libs))

C3_FlagChangeRelink ==
    (OnlyLinkFlagChanged /\ pc = "done") =>
        (h_compiled = {} /\ h_linked /\ MarkerIsCurrent)

\* the same, for a build() that uses the build directory of the build() it
\* follows
C3_FlagChangeRelinkSameDirectory ==
    (OnlyLinkFlagChanged /\ SameDirectory /\ pc = "done") =>
        (h_compiled = {} /\ h_linked /\ MarkerIsCurrent)

C3_SameDirectoryReached ==
    OnlyLinkFlagChanged /\ SameDirectory /\ pc = "done"

(***************************************************************************)
(* C5  Cooperative cancellation: no source is started after compile() has  *)
(* observed a failed outcome.                                              *)
(***************************************************************************)
C5_NoStartAfterFailure == h_late = {}

(***************************************************************************)
(* C7  Worker isolation: two workers that run at the same time compile to  *)
(* different object paths and different dependency paths.                  *)
(***************************************************************************)
C7_WorkerIsolation ==
    \A i, j \in Running :
        i # j => /\ obj_path(build_dir, sources[i]) # obj_path(build_dir, sources[j])
                 /\ dep_path(build_dir, sources[i]) # dep_path(build_dir, sources[j])

(***************************************************************************)
(* C8  Parallel correctness: a build() from a clean state in which every   *)
(* source compiled leaves exactly one object per source, the same set      *)
(* whatever the order of the workers.                                      *)
(***************************************************************************)
CleanStart == ~exists(h_fs0, BuildRoot)

C8_ParallelCorrectness ==
    (CleanStart /\ pc \in {"link", "emit", "done"}) =>
        /\ Cardinality(ObjectsIn(fs, build_dir)) = Len(sources)
        /\ ObjectsIn(fs, build_dir) =
               { obj_path(build_dir, sources[i]) : i \in DOMAIN sources }

(***************************************************************************)
(* C4  Fail-fast leaves the link stage untouched: once a source's outcome  *)
(* is a failure, build() never reaches the link step or returns normally,  *)
(* the linker is not invoked, and every executable, link-hash marker and   *)
(* compile_commands.json is as it was when build() was called.             *)
(***************************************************************************)
IsLinkStageFile(p) ==
    \/ p = compile_commands
    \/ p[Len(p)] = <<app_name>>
    \/ p[Len(p)] = <<"", app_name, "linkhash">>

LinkStageFiles(f) == { p \in DOMAIN f : IsLinkStageFile(p) }

LinkStageUntouched ==
    /\ LinkStageFiles(fs) = LinkStageFiles(h_fs0)
    /\ \A p \in LinkStageFiles(fs) : fs[p] = h_fs0[p]

C4_FailFast ==
    (pc \in InBuild \cup AfterBuild /\ SomeFailed) =>
        /\ pc \in {"gather", "abort", "failed"}
        /\ ~h_linked
        /\ LinkStageUntouched

\* a build() that failed after another source had succeeded, with the
\* executable and the marker of an earlier build in place
C4_Reached ==
    /\ pc = "failed"
    /\ SomeFailed
    /\ \E j \in DOMAIN task : task[j].st = "done" /\ task[j].success
    /\ exists(fs, app_path(build_dir))
    /\ exists(fs, link_hash_path(build_dir))

(***************************************************************************)
(* C6  Join before link or failure: the link step, and every write to an   *)
(* executable, a marker or compile_commands.json, happens only when every  *)
(* worker has ended with success; and when build() has raised, no worker   *)
(* is queued or running.                                                   *)
(***************************************************************************)
C6_JoinBeforeLinkOrFailure ==
    /\ pc \in {"link", "emit", "done"} => AllSucceeded
    /\ (pc \in InBuild \cup AfterBuild /\ (h_linked \/ ~LinkStageUntouched))
           => AllSucceeded
    /\ pc = "failed" => AllJoined

\* build() has raised after waiting for a compiler that was started when
\* the failure had been observed
C6_Reached ==
    /\ pc = "failed"
    /\ SomeFailed
    /\ \E i \in h_late : i \in h_compiled /\ task[i].st = "done"

(***************************************************************************)
(* C9  Recompilation oracle: need_recompile(obj, dep) is true exactly when *)
(* obj is missing, or dep is missing, or a path listed in the first rule   *)
(* of dep is missing or has a modification time above that of obj.         *)
(***************************************************************************)
HasAColon(c) == \E k \in 1..Len(c) : c[k].k = "colon"

FirstColon(c) ==
    CHOOSE k \in 1..Len(c) : c[k].k = "colon" /\ \A j \in 1..(k - 1) : c[j].k # "colon"

\* the words between the first colon of the text and the end of its line,
\* a continuation not ending the line
Listed(c) ==
    IF ~HasAColon(c) THEN {}
    ELSE { PathOf(c[i]) :
             i \in { i \in (FirstColon(c) + 1)..Len(c) :
                        /\ c[i].k \notin {"cont", "nl"}
                        /\ \A j \in (FirstColon(c) + 1)..i : c[j].k # "nl" } }

Stale(f, obj, dep) ==
    IF ~exists(f, obj) \/ ~exists(f, dep) THEN TRUE
    ELSE \E p \in Listed(f[dep].data) :
             ~exists(f, p) \/ f[p].mtime > f[obj].mtime

C9_RecompileOracle ==
    ret # <<>> => (ret[1] <=> Stale(fs, OracleObj, OracleDep))

\* the oracle returned false with a listed dependency exactly as old as obj
C9_Reached ==
    /\ ret = <<FALSE>>
    /\ \E p \in Listed(fs[OracleDep].data) : fs[p].mtime = fs[OracleObj].mtime

(***************************************************************************)
(* C10  Link oracle: need_relink is false exactly when the executable      *)
(* exists, the marker exists and holds the hash of the present link        *)
(* command, and no object is newer than the executable; and when link()    *)
(* has skipped the linker, the executable is valid in that sense.          *)
(***************************************************************************)
ExeValid ==
    /\ exists(fs, app_path(build_dir))
    /\ exists(fs, link_hash_path(build_dir))
    /\ fs[link_hash_path(build_dir)].data =
           calc_link_hash(link_cmd(build_dir, ObjPaths, libs))
    /\ \A k \in 1..Len(ObjPaths) :
           fs[ObjPaths[k]].mtime <= fs[app_path(build_dir)].mtime

SameAt(f, g, p) ==
    IF exists(f, p) THEN exists(g, p) /\ f[p] = g[p] ELSE ~exists(g, p)

C11_LinkFailureFatal ==
    /\ h_exit = "nonzero" =>
           /\ pc = "failed"
           /\ SameAt(fs, h_fs0, link_hash_path(build_dir))
           /\ SameAt(fs, h_fs0, compile_commands)
    /\ (pc \in InBuild \cup AfterBuild
          /\ ~SameAt(fs, h_fs0, link_hash_path(build_dir))) => h_exit = "zero"

\* the linker failed in a build(gen_db=True) that found the marker of an
\* earlier build
C11_Reached ==
    /\ h_exit = "nonzero"
    /\ gen_db
    /\ exists(h_fs0, link_hash_path(build_dir))

(***************************************************************************)
(* C12  Clean scope: clean() leaves every file below the subdirectory of   *)
(* the other build type as it was, also when it runs on a newly loaded     *)
(* configuration on which build() was not called.                          *)
(***************************************************************************)
TypeDir(bt) == Join(BuildRoot, <<Dir(bt)>>)

OtherTypeArtifacts(f) ==
    { p \in DOMAIN f : \E bt \in BuildTypes \ {build_type} : IsPrefix(TypeDir(bt), p) }

C12_CleanScope ==
    pc = "cleaned" =>
        \A p \in OtherTypeArtifacts(h_fs0) : SameAt(fs, h_fs0, p)

(***************************************************************************)
(* C13  Clean idempotence: clean() called when the build directory does    *)
(* not exist returns without raising and leaves the file system as it was. *)
(***************************************************************************)
C13_CleanIdempotence ==
    (pc \in {"cleaned", "clean raised"} /\ ~exists(h_fs0, build_dir)) =>
        (pc = "cleaned" /\ fs = h_fs0)

\* clean() right after a clean(): a build() in between would have made the
\* build root again
C13_Reached ==
    /\ pc = "cleaned"
    /\ runs >= 2
    /\ ~exists(h_fs0, BuildRoot)
    /\ fs = h_fs0

(***************************************************************************)
(* C14  Compile-database completeness: when build(gen_db=True) has         *)
(* returned, compile_commands.json holds exactly one entry per configured  *)
(* source and nothing else, whichever sources were skipped and in whatever *)
(* order the workers ended; an entry's file is the source's path and its   *)
(* directory is root_dir.                                                  *)
(***************************************************************************)
Database == fs[compile_commands].data

C14_DatabaseComplete ==
    (pc = "done" /\ gen_db) =>
        /\ exists(fs, compile_commands)
        /\ Len(Database) = Len(sources)
        /\ \A i \in DOMAIN sources :
               Cardinality({ k \in DOMAIN Database : Database[k].file = sources[i] }) = 1
        /\ \A k \in DOMAIN Database : Database[k].directory = root_dir

\* a database replaced by a build() that skipped one source, compiled the
\* other and gathered them against the order of the source list
C14_Reached ==
    /\ pc = "done"
    /\ gen_db
    /\ exists(h_fs0, compile_commands)
    /\ h_fs0[compile_commands].data # <<>>
    /\ h_compiled # {}
    /\ h_compiled # DOMAIN sources
    /\ res = <<2, 1>>

(***************************************************************************)
(* C15  Fresh configuration on every invocation: in every build(), also    *)
(* one that follows another build() on the same configuration, the build   *)
(* directory is <BuildRoot>/<build type> and the compile flags are the     *)
(* configured flags followed by one copy of the build type's flags.        *)
(***************************************************************************)
C15_FreshConfiguration ==
    pc \in InBuild \cup AfterBuild =>
        /\ build_dir = TypeDir(build_type)
        /\ cflags = BaseCflags \o TypeFlags(build_type)

(***************************************************************************)
(* C16  Single-target registry: the registry never holds more than one     *)
(* target; a register_target call made while it holds one leaves it as it  *)
(* is and returns; no call takes the process-exit branch; and the targets  *)
(* the registry took in are, in order, those pull_target has yielded       *)
(* followed by the one still held, so each is yielded at most once and is  *)
(* gone from the registry once yielded.                                    *)
(***************************************************************************)
Added ==
    LET calls == SelectSeq(h_calls, LAMBDA c : c.outcome = "added")
    IN  [k \in DOMAIN calls |-> calls[k].target]

C16_SingleTargetRegistry ==
    /\ Len(registry) <= 1
    /\ \A k \in DOMAIN h_calls :
           /\ h_calls[k].outcome # "exit"
           /\ h_calls[k].before # <<>> =>
                  (h_calls[k].after = h_calls[k].before /\ h_calls[k].outcome = "ignored")
    /\ pc # "exited"
    /\ Added = h_pull \o registry

\* a target was registered and pulled, another one is held, and a call with
\* a target of the held one's name was made while it was held
C16_Reached ==
    /\ Len(h_pull) = 1
    /\ Len(registry) = 1
    /\ \E k \in DOMAIN h_calls :
           /\ h_calls[k].before = registry
           /\ eq(h_calls[k].target, registry[1])
           /\ h_calls[k].target # registry[1]

(***************************************************************************)
(* C17  The link-skip decision does not depend on the order in which the   *)
(* workers ended: when link() is about to run, every other order of        *)
(* gathering the same outcomes gives the same link hash and the same       *)
(* answer of need_relink; and a build() that found the executable, the     *)
(* marker of the same link command and no newer object does not invoke the *)
(* linker, in whatever order it gathered.                                  *)
(***************************************************************************)
\* the object paths as another completion order would pass them to link()
Reordered ==
    { [k \in DOMAIN res |-> ObjPaths[pi[k]]] : pi \in Permutations(DOMAIN res) }

InSourceOrder == [i \in DOMAIN sources |-> obj_path(build_dir, sources[i])]

ValidBefore ==
    /\ exists(h_fs0, app_path(build_dir))
    /\ exists(h_fs0, link_hash_path(build_dir))
    /\ h_fs0[link_hash_path(build_dir)].data =
           calc_link_hash(link_cmd(build_dir, InSourceOrder, libs))
    /\ \A k \in DOMAIN ObjPaths :
           fs[ObjPaths[k]].mtime <= h_fs0[app_path(build_dir)].mtime

C17_LinkOrderIndependent ==
    /\ pc = "link" =>
           \A objs \in Reordered :
               /\ calc_link_hash(link_cmd(build_dir, objs, libs)) =
                      calc_link_hash(link_cmd(build_dir, ObjPaths, libs))
               /\ need_relink(fs, build_dir, objs, link_cmd(build_dir, objs, libs)) =
                      need_relink(fs, build_dir, ObjPaths,
                                  link_cmd(build_dir, ObjPaths, libs))
    /\ (pc \in {"emit", "done"} /\ ValidBefore) => ~h_linked

\* an unchanged rebuild that gathered the second source first and skipped
\* the linker
C17_Reached ==
    /\ pc = "done"
    /\ ValidBefore
    /\ res = <<2, 1>>
    /\ ObjPaths # InSourceOrder
    /\ ~h_linked

(***************************************************************************)
(* C18  Compile flags are not part of the staleness decision: a build()    *)
(* that follows a successful build() of the same build type, with no file  *)
(* touched and the same link flags but another compile flag list, invokes  *)
(* neither the compiler nor the linker.                                    *)
(***************************************************************************)
OnlyCflagsChanged ==
    /\ FollowsBuild
    /\ h_start[1].libs = libs
    /\ h_start[1].touched = {}
    /\ h_start[1].cflags # cflags

C18_CflagsNotInStaleness ==
    OnlyCflagsChanged => (h_compiled = {} /\ ~h_linked)

\* the same, for a build() that uses the build directory of the build() it
\* follows
C18_CflagsNotInStalenessSameDirectory ==
    (OnlyCflagsChanged /\ SameDirectory) => (h_compiled = {} /\ ~h_linked)

C18_SameDirectoryReached ==
    OnlyCflagsChanged /\ SameDirectory /\ pc = "done"

(***************************************************************************)
(* C19  A failed compile is retried: in the build() that follows, with no  *)
(* file changed in between, a build() of the same type that compile()      *)
(* aborted, no source that failed there is skipped, and no source that     *)
(* succeeded there is compiled again.                                      *)
(***************************************************************************)
FollowsAbort ==
    /\ pc \in InBuild \cup AfterBuild
    /\ h_abort # <<>>
    /\ runs = h_abort[1].run + 1
    /\ build_type = h_abort[1].bt

\* the sources compile_file has dealt with in this build()
Started == { i \in DOMAIN task : task[i].st \in {"running", "done"} }

C19_FailedCompileRetried ==
    FollowsAbort =>
        /\ \A i \in h_abort[1].failed \cap Started : i \in h_compiled
        /\ \A i \in h_abort[1].succeeded : i \notin h_compiled

\* the same, for a build() that uses the build directory of the aborted
\* one, on sources with an object path each
C19_RetriedSameDirectory ==
    (/\ FollowsAbort
     /\ h_abort[1].dir = build_dir
     /\ \A i, j \in DOMAIN sources :
            i # j => obj_path(build_dir, sources[i]) # obj_path(build_dir, sources[j]))
    => /\ \A i \in h_abort[1].failed \cap Started : i \in h_compiled
       /\ \A i \in h_abort[1].succeeded : i \notin h_compiled

C19_SameDirectoryReached ==
    /\ FollowsAbort
    /\ h_abort[1].dir = build_dir
    /\ sources = <<a_c, b_c>>
    /\ h_abort[1].failed # {}
    /\ h_abort[1].succeeded # {}
    /\ h_abort[1].failed \subseteq h_compiled
    /\ pc = "done"

====
